---------------------------- MODULE Spec2Model ----------------------------
(***************************************************************************)
(* NEMO Tool Display (src/src/main.cpp): an ESP32 sketch that joins WiFi,  *)
(* keeps an MQTT link to a broker, and shows the status messages of one    *)
(* tool on an LVGL screen.                                                 *)
(*                                                                         *)
(* The sketch is one thread: setup() runs once, then loop() forever.  The  *)
(* model follows that thread statement by statement (pc), with the WiFi    *)
(* radio, the TCP link and the broker as the environment.                  *)
(***************************************************************************)
EXTENDS Integers, Sequences, FiniteSets, TLC

VARIABLES
    pc,               \* position of the single thread in setup()/loop()
    attempts,         \* setupWiFi: int attempts
    wifi,             \* WiFi.status() == WL_CONNECTED
    linkUp,           \* the TCP connection to the broker is alive
    mqttState,        \* mqttClient.state()
    subscribed,       \* topics with an active subscription in this session
    subCalls,         \* subscribe() calls issued since the last connect() call
    status_label,     \* text of the connection status label
    status_indicator, \* colour of the status block
    user_label,       \* caption above the user value
    user_value,       \* the user value
    time_label,       \* caption above the time value
    time_value,       \* the time value
    cbLog,            \* what the last mqttCallback printed on Serial
    clockOn,          \* whether elapsed time is being measured
    gap,              \* ms of delay() since the last connect() call returned
    blocked,          \* ms of delay() in the current pass of loop()
    valid,            \* a status message has been decoded since power-up
    renderOn,         \* whether the display refresh is being followed
    lvTick,           \* ms of lv_tick_inc since the display refresh timer ran
    pending,          \* snapshot updates applied since the last redraw
    coalesced,        \* snapshot updates the last redraw took in
    drawn,            \* the snapshot as the last redraw put it on the screen
    toolName,         \* capitalizeToolName: const char* toolName
    toolDisplayName   \* String toolDisplayName, as character codes

connVars == <<wifi, linkUp, mqttState, subscribed, subCalls>>
snapshot == <<status_indicator, user_label, user_value, time_label, time_value>>
timeVars == <<clockOn, gap, blocked>>
renderVars == <<renderOn, lvTick, pending, coalesced, drawn>>
capVars == <<toolName, toolDisplayName>>
vars == <<pc, attempts, wifi, linkUp, mqttState, subscribed, subCalls,
          status_label, status_indicator, user_label, user_value,
          time_label, time_value, cbLog, clockOn, gap, blocked,
          valid, renderOn, lvTick, pending, coalesced, drawn,
          toolName, toolDisplayName>>

---------------------------------------------------------------------------
(* Program constants *)

MQTT_RECONNECT_INTERVAL == 5000
BackoffDelayMs == 5000
LoopDelayMs == 5
WifiPollDelayMs == 500
MaxWifiAttempts == 20
MessageBufSize == 512
LvTickMs == 5
LV_DISP_DEF_REFR_PERIOD == 30

(* Bound of the model: elapsed time saturates here *)
GapCap == 5010

(* Bound of the model: the count of updates waiting for a redraw saturates *)
MaxBurst == 2

(* Bound of the model: the longest tool name given to capitalizeToolName *)
MaxNameLen == 3

StatusTopic == "nemo/esp32/woollam/status"
OverallTopic == "nemo/esp32/overall"
OtherTopic == "nemo/esp32/other-tool/status"
Topics == {StatusTopic, OverallTopic, OtherTopic}

NullObj == "<nullptr>"

---------------------------------------------------------------------------
(* Payloads: a JSON document is the value of each key the sketch reads;   *)
(* a payload that fails to parse carries the keys read before the error.  *)

Absent == "<absent>"
NotString == "<number>"

IsStr(v) == v \notin {Absent, NotString}

UserNames == {Absent, "alice", "bob"}
Timestamps == {Absent, "09:15", "17:40"}
EventTypes == {Absent, "enabled", "idle", "disabled", "maintenance"}

Doc(u, t, e, iu, st, wf, len) ==
    [user_name |-> u, timestamp |-> t, event_type |-> e, in_use |-> iu,
     status |-> st, wellformed |-> wf, length |-> len]

\* every combination of the three keys the sketch reads, as strings or absent
KeyDocs ==
    {Doc(u, t, e, Absent, Absent, TRUE, 40) :
        u \in UserNames, t \in Timestamps, e \in EventTypes}

\* one of the three keys present with a value that is not a string
NotStringDocs ==
    {Doc(NotString, "17:40", "disabled", Absent, Absent, TRUE, 40),
     Doc("bob", NotString, "disabled", Absent, Absent, TRUE, 40),
     Doc("bob", "17:40", NotString, Absent, Absent, TRUE, 40)}

\* the keys of the other vocabularies: in_use, status
OtherKeyDocs ==
    {Doc(Absent, Absent, "enabled", iu, Absent, TRUE, 40) : iu \in {"true", "false"}}
    \cup {Doc(Absent, Absent, Absent, Absent, st, TRUE, 40) : st \in {"active", "frobnicating"}}

\* payloads that fail to parse, with what was read before the error
MalformedDocs ==
    {Doc(u, t, e, Absent, Absent, FALSE, 40) :
        u \in {Absent, "bob"}, t \in {Absent, "17:40"}, e \in {Absent, "disabled"}}

\* payloads around the size of the message buffer
LongDocs ==
    {Doc("bob", "17:40", "disabled", Absent, Absent, TRUE, len) : len \in {511, 512, 600}}

Payloads == KeyDocs \cup NotStringDocs \cup OtherKeyDocs \cup MalformedDocs \cup LongDocs

---------------------------------------------------------------------------
(* The MQTT client library, as the sketch uses it *)

\* mqttClient.connected(): the value returned
Connected == linkUp /\ mqttState = "CONNECTED"

\* mqttClient.connected(): a lost link is noticed by the call
StateAfterConnected ==
    IF ~linkUp /\ mqttState = "CONNECTED" THEN "CONNECTION_LOST" ELSE mqttState

Min(a, b) == IF a < b THEN a ELSE b

\* delay(ms) outside loop()
ElapseSetup(ms) ==
    /\ clockOn' = clockOn
    /\ gap' = IF clockOn THEN Min(gap + ms, GapCap) ELSE gap
    /\ blocked' = blocked

\* delay(ms) inside a pass of loop()
Elapse(ms) ==
    /\ clockOn' = clockOn
    /\ gap' = IF clockOn THEN Min(gap + ms, GapCap) ELSE gap
    /\ blocked' = IF clockOn THEN Min(blocked + ms, GapCap) ELSE blocked

\* updateConnectionStatus(): the text it puts on the status label
StatusText(wifiConnected, mqttConnected) ==
    IF wifiConnected /\ mqttConnected THEN "Status: Connected"
    ELSE IF wifiConnected /\ ~mqttConnected THEN "Status: WiFi OK, No MQTT"
    ELSE IF ~wifiConnected /\ mqttConnected THEN "Status: No WiFi, MQTT OK"
    ELSE "Status: No WiFi, No MQTT"

\* updateConnectionStatus()
UpdateConnectionStatus ==
    /\ status_label' = IF status_label = NullObj THEN status_label
                       ELSE StatusText(wifi, Connected)
    /\ mqttState' = StateAfterConnected

\* lv_label_set_text / lv_obj_set_style_bg_color: the objects written are
\* marked for the next redraw
Invalidate ==
    /\ pending' = IF renderOn THEN Min(pending + 1, MaxBurst) ELSE pending
    /\ drawn' = drawn

\* mutant: each redraw takes in one waiting update only
DispRefresh_OnePerRedraw ==
    IF ~renderOn
      THEN UNCHANGED <<lvTick, pending, coalesced, drawn>>
      ELSE LET t == Min(lvTick + LvTickMs, LV_DISP_DEF_REFR_PERIOD) IN
        IF t < LV_DISP_DEF_REFR_PERIOD
          THEN lvTick' = t /\ UNCHANGED <<pending, coalesced, drawn>>
          ELSE IF pending > 0
            THEN /\ lvTick' = 0
                 /\ drawn' = snapshot
                 /\ coalesced' = 1
                 /\ pending' = pending - 1
            ELSE /\ lvTick' \in {0, t}
                 /\ UNCHANGED <<pending, coalesced, drawn>>

\* lv_tick_inc(5); lv_timer_handler(): the display refresh timer runs once
\* LV_DISP_DEF_REFR_PERIOD ms of ticks have passed, and redraws what was
\* marked; with nothing marked the timer either runs idle or stays due
DispRefresh ==
    IF ~renderOn
      THEN UNCHANGED <<lvTick, pending, coalesced, drawn>>
      ELSE LET t == Min(lvTick + LvTickMs, LV_DISP_DEF_REFR_PERIOD) IN
        IF t < LV_DISP_DEF_REFR_PERIOD
          THEN lvTick' = t /\ UNCHANGED <<pending, coalesced, drawn>>
          ELSE IF pending > 0
            THEN /\ lvTick' = 0
                 /\ drawn' = snapshot
                 /\ coalesced' = pending
                 /\ pending' = 0
            ELSE /\ lvTick' \in {0, t}
                 /\ UNCHANGED <<pending, coalesced, drawn>>

---------------------------------------------------------------------------
(* capitalizeToolName: a C string is its character codes, or a null pointer *)

Name(chars) == [isNull |-> FALSE, chars |-> chars]
NullName == [isNull |-> TRUE, chars |-> <<>>]

\* "woollam"
TARGET_TOOL_NAME == <<119, 111, 108, 108, 97, 109>>

\* "Unknown Tool"
UnknownTool == <<85, 110, 107, 110, 111, 119, 110, 32, 84, 111, 111, 108>>

\* capitalizeToolName: the for loop from position i on; '_' is 95, '-' is 45,
\* ' ' is 32, 'a'..'z' are 97..122, 'A'..'Z' are 65..90
RECURSIVE CapitalizeFrom(_, _, _, _)
CapitalizeFrom(chars, i, capitalizeNext, result) ==
    IF i > Len(chars) THEN result
    ELSE LET c == chars[i] IN
      IF c = 95 \/ c = 45
        THEN CapitalizeFrom(chars, i + 1, TRUE, Append(result, 32))
      ELSE IF capitalizeNext /\ c >= 97 /\ c <= 122
        THEN CapitalizeFrom(chars, i + 1, FALSE, Append(result, (c - 32) % 256))
      ELSE IF capitalizeNext /\ c >= 65 /\ c <= 90
        THEN CapitalizeFrom(chars, i + 1, FALSE, Append(result, c))
      ELSE CapitalizeFrom(chars, i + 1, FALSE, Append(result, c))

\* mutant: the first letter is not capitalised
CapitalizeToolName_LowerFirst(name) ==
    IF name.isNull \/ Len(name.chars) = 0 THEN UnknownTool
    ELSE CapitalizeFrom(name.chars, 1, FALSE, <<>>)

\* capitalizeToolName(toolName)
CapitalizeToolName(name) ==
    IF name.isNull \/ Len(name.chars) = 0 THEN UnknownTool
    ELSE CapitalizeFrom(name.chars, 1, TRUE, <<>>)

---------------------------------------------------------------------------
(* Initial state: the globals as constructed, before setup() *)

Init ==
    /\ pc = "cap_name"
    /\ attempts = 0
    /\ wifi = FALSE
    /\ linkUp = FALSE
    /\ mqttState = "DISCONNECTED"
    /\ subscribed = {}
    /\ subCalls = <<>>
    /\ status_label = NullObj
    /\ status_indicator = NullObj
    /\ user_label = NullObj
    /\ user_value = NullObj
    /\ time_label = NullObj
    /\ time_value = NullObj
    /\ cbLog = {}
    /\ clockOn = FALSE
    /\ gap = 0
    /\ blocked = 0
    /\ valid = FALSE
    /\ renderOn = FALSE
    /\ lvTick = 0
    /\ pending = 0
    /\ coalesced = 0
    /\ drawn = <<NullObj, NullObj, NullObj, NullObj, NullObj>>
    /\ toolName = Name(TARGET_TOOL_NAME)
    /\ toolDisplayName = <<>>

---------------------------------------------------------------------------
(* setup() *)

\* toolDisplayName = capitalizeToolName(TARGET_TOOL_NAME);
CapitalizeName ==
    /\ pc = "cap_name"
    /\ toolDisplayName' = CapitalizeToolName(toolName)
    /\ pc' = "create_ui"
    /\ UNCHANGED <<attempts, connVars, status_label, snapshot, cbLog, valid,
                   renderVars, timeVars, toolName>>

\* mutant: the user value is created showing a sample name
CreateSimpleUi_SampleUser ==
    /\ pc = "create_ui"
    /\ status_indicator' = "red"
    /\ status_label' = "Initializing..."
    /\ user_label' = "User"
    /\ user_value' = "alice"
    /\ time_label' = "Enabled/Disabled Since"
    /\ time_value' = "--:--"
    /\ Invalidate
    /\ pc' = "wifi_begin"
    /\ UNCHANGED <<attempts, connVars, cbLog, valid, capVars, renderOn, lvTick, coalesced,
                   timeVars>>

\* create_simple_ui()
CreateSimpleUi ==
    /\ pc = "create_ui"
    /\ status_indicator' = "red"
    /\ status_label' = "Initializing..."
    /\ user_label' = "User"
    /\ user_value' = "--"
    /\ time_label' = "Enabled/Disabled Since"
    /\ time_value' = "--:--"
    /\ Invalidate
    /\ pc' = "wifi_begin"
    /\ UNCHANGED <<attempts, connVars, cbLog, valid, capVars, renderOn, lvTick, coalesced,
                   timeVars>>

\* setupWiFi(): up to WiFi.begin and int attempts = 0
SetupWiFiBegin ==
    /\ pc = "wifi_begin"
    /\ UpdateConnectionStatus
    /\ attempts' = 0
    /\ pc' = "wifi_poll"
    /\ UNCHANGED <<wifi, linkUp, subscribed, subCalls, snapshot, cbLog, valid, capVars, renderVars, timeVars>>

\* mutant: the polling loop tests attempts <= 20
SetupWiFiPoll_OffByOne ==
    /\ pc = "wifi_poll"
    /\ ~wifi /\ attempts <= MaxWifiAttempts
    /\ attempts' = attempts + 1
    /\ ElapseSetup(WifiPollDelayMs)
    /\ UNCHANGED <<pc, connVars, status_label, snapshot, cbLog, valid, capVars, renderVars>>

\* setupWiFi(): one pass of the polling loop
SetupWiFiPoll ==
    /\ pc = "wifi_poll"
    /\ ~wifi /\ attempts < MaxWifiAttempts
    /\ attempts' = attempts + 1
    /\ ElapseSetup(WifiPollDelayMs)
    /\ UNCHANGED <<pc, connVars, status_label, snapshot, cbLog, valid, capVars, renderVars>>

\* setupWiFi(): the polling loop ends, the status label is refreshed
SetupWiFiDone ==
    /\ pc = "wifi_poll"
    /\ ~(~wifi /\ attempts < MaxWifiAttempts)
    /\ UpdateConnectionStatus
    /\ attempts' = 0
    /\ pc' = "setup_mqtt"
    /\ UNCHANGED <<wifi, linkUp, subscribed, subCalls, snapshot, cbLog, valid, capVars, renderVars, timeVars>>

\* setupMQTT()
SetupMQTT ==
    /\ pc = "setup_mqtt"
    /\ pc' = "lv_timer"
    /\ UNCHANGED <<attempts, connVars, status_label, snapshot, cbLog, valid, capVars, renderVars, timeVars>>

---------------------------------------------------------------------------
(* loop() *)

\* lv_tick_inc(5); lv_timer_handler(): the render step
LvTimerHandler ==
    /\ pc = "lv_timer"
    /\ DispRefresh
    /\ pc' = "check_mqtt"
    /\ blocked' = 0
    /\ UNCHANGED <<attempts, connVars, status_label, snapshot, cbLog, valid, capVars,
                   renderOn, clockOn, gap>>

\* mutant: loop() stops calling connectMQTT once an attempt has failed
CheckMqtt_GivesUp ==
    /\ pc = "check_mqtt"
    /\ mqttState' = StateAfterConnected
    /\ pc' = IF ~Connected /\ mqttState # "CONNECT_FAILED"
               THEN "connect_mqtt" ELSE "client_loop"
    /\ UNCHANGED <<attempts, wifi, linkUp, subscribed, subCalls, status_label,
                   snapshot, cbLog, valid, capVars, renderVars, timeVars>>

\* if (!mqttClient.connected()) connectMQTT();
CheckMqtt ==
    /\ pc = "check_mqtt"
    /\ mqttState' = StateAfterConnected
    /\ pc' = IF ~Connected THEN "connect_mqtt" ELSE "client_loop"
    /\ UNCHANGED <<attempts, wifi, linkUp, subscribed, subCalls, status_label,
                   snapshot, cbLog, valid, capVars, renderVars, timeVars>>

\* mutant: connectMQTT goes on to connect() without looking at WiFi
ConnectMQTT_NoGate ==
    /\ pc = "connect_mqtt"
    /\ IF FALSE
         THEN /\ pc' = "client_loop"
              /\ UNCHANGED <<mqttState, subCalls>>
         ELSE /\ mqttState' = StateAfterConnected
              /\ IF ~Connected
                   THEN pc' = "connecting" /\ subCalls' = <<>>
                   ELSE pc' = "client_loop" /\ subCalls' = subCalls
    /\ UNCHANGED <<attempts, wifi, linkUp, subscribed, status_label,
                   snapshot, cbLog, valid, capVars, renderVars, timeVars>>

\* connectMQTT(): the WiFi gate, the connected() check, the connect() call
ConnectMQTT ==
    /\ pc = "connect_mqtt"
    /\ IF ~wifi
         THEN /\ pc' = "client_loop"
              /\ UNCHANGED <<mqttState, subCalls>>
         ELSE /\ mqttState' = StateAfterConnected
              /\ IF ~Connected
                   THEN pc' = "connecting" /\ subCalls' = <<>>
                   ELSE pc' = "client_loop" /\ subCalls' = subCalls
    /\ UNCHANGED <<attempts, wifi, linkUp, subscribed, status_label,
                   snapshot, cbLog, valid, capVars, renderVars, timeVars>>

\* mqttClient.connect(mqtt_client_id) returns true
ConnectOk ==
    /\ pc = "connecting"
    /\ wifi
    /\ linkUp' = TRUE
    /\ mqttState' = "CONNECTED"
    /\ subscribed' = {}
    /\ pc' = "sub_status"
    /\ gap' = 0
    /\ UNCHANGED <<attempts, wifi, subCalls, status_label, snapshot, cbLog, valid, capVars, renderVars,
                   clockOn, blocked>>

\* mqttClient.connect(mqtt_client_id) returns false
ConnectFail ==
    /\ pc = "connecting"
    /\ linkUp' = FALSE
    /\ mqttState' = "CONNECT_FAILED"
    /\ subscribed' = {}
    /\ pc' = "fail_status"
    /\ gap' = 0
    /\ UNCHANGED <<attempts, wifi, subCalls, status_label, snapshot, cbLog, valid, capVars, renderVars,
                   clockOn, blocked>>

\* mqttClient.subscribe(topic) returning ok; the result is only printed
Subscribe(topic, ok) ==
    /\ ok => Connected
    /\ mqttState' = StateAfterConnected
    /\ subCalls' = Append(subCalls, topic)
    /\ subscribed' = IF ok THEN subscribed \cup {topic} ELSE subscribed

\* bool sub1 = mqttClient.subscribe(mqtt_topic_status.c_str());
SubscribeStatus ==
    /\ pc = "sub_status"
    /\ \E ok \in BOOLEAN : Subscribe(StatusTopic, ok)
    /\ pc' = "sub_overall"
    /\ UNCHANGED <<attempts, wifi, linkUp, status_label, snapshot, cbLog, valid, capVars, renderVars, timeVars>>

\* mutant: the second subscribe names the status topic again
SubscribeOverall_StatusAgain ==
    /\ pc = "sub_overall"
    /\ \E ok \in BOOLEAN : Subscribe(StatusTopic, ok)
    /\ pc' = "ok_status"
    /\ UNCHANGED <<attempts, wifi, linkUp, status_label, snapshot, cbLog, valid, capVars, renderVars, timeVars>>

\* bool sub2 = mqttClient.subscribe(mqtt_topic_overall);
SubscribeOverall ==
    /\ pc = "sub_overall"
    /\ \E ok \in BOOLEAN : Subscribe(OverallTopic, ok)
    /\ pc' = "ok_status"
    /\ UNCHANGED <<attempts, wifi, linkUp, status_label, snapshot, cbLog, valid, capVars, renderVars, timeVars>>

\* connectMQTT(): updateConnectionStatus() after a successful connect
ConnectedStatus ==
    /\ pc = "ok_status"
    /\ UpdateConnectionStatus
    /\ pc' = "client_loop"
    /\ UNCHANGED <<attempts, wifi, linkUp, subscribed, subCalls, snapshot, cbLog, valid, capVars, renderVars, timeVars>>

\* mutant: the failure branch also calls mqttClient.disconnect()
FailedStatus_Disconnects ==
    /\ pc = "fail_status"
    /\ status_label' = StatusText(wifi, Connected)
    /\ mqttState' = "DISCONNECTED"
    /\ pc' = "backoff"
    /\ UNCHANGED <<attempts, wifi, linkUp, subscribed, subCalls, snapshot, cbLog, valid, capVars, renderVars, timeVars>>

\* mutant: a failed connect also puts the user and time placeholders back
FailedStatus_ClearsSnapshot ==
    /\ pc = "fail_status"
    /\ UpdateConnectionStatus
    /\ user_value' = "--"
    /\ time_value' = "--:--"
    /\ pc' = "backoff"
    /\ UNCHANGED <<attempts, wifi, linkUp, subscribed, subCalls, status_indicator,
                   user_label, time_label, cbLog, valid, capVars, renderVars, timeVars>>

\* connectMQTT(): updateConnectionStatus() after a failed connect
FailedStatus ==
    /\ pc = "fail_status"
    /\ UpdateConnectionStatus
    /\ pc' = "backoff"
    /\ UNCHANGED <<attempts, wifi, linkUp, subscribed, subCalls, snapshot, cbLog, valid, capVars, renderVars, timeVars>>

\* connectMQTT(): delay(5000) after a failed connect
Backoff ==
    /\ pc = "backoff"
    /\ Elapse(BackoffDelayMs)
    /\ pc' = "client_loop"
    /\ UNCHANGED <<attempts, connVars, status_label, snapshot, cbLog, valid, capVars, renderVars>>

---------------------------------------------------------------------------
(* The message path: mqttClient.loop() -> mqttCallback -> processMQTTMessage *)

\* mutant: "idle" gets a caption of its own
TimeLabelText_IdleSeparate(eventType) ==
    IF eventType = "enabled" THEN "Enabled Since"
    ELSE IF eventType = "idle" THEN "Idle Since"
    ELSE IF eventType = "disabled" THEN "Disabled Since"
    ELSE "Change Time"

\* processMQTTMessage: the caption of the time value for an event_type
TimeLabelText(eventType) ==
    IF eventType = "enabled" \/ eventType = "idle" THEN "Enabled Since"
    ELSE IF eventType = "disabled" THEN "Disabled Since"
    ELSE "Change Time"

\* processMQTTMessage: the caption of the user value for an event_type
UserLabelText(eventType) ==
    IF eventType = "enabled" \/ eventType = "idle" THEN "User"
    ELSE IF eventType = "disabled" THEN "Last User"
    ELSE "User"

\* mutant: only "enabled" counts as an enabled state
IsToolEnabled_OnlyEnabled(eventType) == eventType = "enabled"

\* processMQTTMessage: bool isToolEnabled
IsToolEnabled(eventType) == eventType = "enabled" \/ eventType = "idle"

\* updateStatusIndicator(isEnabled): the colour of the status block after it
IndicatorAfter(isEnabled) ==
    IF status_indicator = NullObj THEN status_indicator
    ELSE IF isEnabled THEN "green" ELSE "red"

\* mutant: a message without user_name clears the user value
UserValueAfter_ClearsWhenAbsent(p) ==
    IF user_value = NullObj THEN user_value
    ELSE IF IsStr(p.user_name) THEN p.user_name ELSE "--"

\* processMQTTMessage: the user_name block
UserValueAfter(p) ==
    IF IsStr(p.user_name) /\ user_value # NullObj THEN p.user_name ELSE user_value

\* processMQTTMessage: the timestamp block
TimeValueAfter(p) ==
    IF IsStr(p.timestamp) /\ time_value # NullObj THEN p.timestamp ELSE time_value

\* processMQTTMessage: the event_type block, time caption
TimeLabelAfter(p) ==
    IF IsStr(p.event_type) /\ time_label # NullObj
      THEN TimeLabelText(p.event_type) ELSE time_label

\* processMQTTMessage: the event_type block, user caption
UserLabelAfter(p) ==
    IF IsStr(p.event_type) /\ user_label # NullObj
      THEN UserLabelText(p.event_type) ELSE user_label

\* mutant: every event_type flips the colour of the status block
StatusIndicatorAfter_Toggles(p) ==
    IF IsStr(p.event_type)
      THEN IndicatorAfter(status_indicator # "green") ELSE status_indicator

\* processMQTTMessage: the event_type block, status block
StatusIndicatorAfter(p) ==
    IF IsStr(p.event_type)
      THEN IndicatorAfter(IsToolEnabled(p.event_type)) ELSE status_indicator

\* processMQTTMessage: what it prints for a tool status message
StatusLog(p) ==
    {"Processing tool status message..."}
    \cup (IF IsStr(p.user_name) /\ user_value # NullObj THEN {"Updated user"} ELSE {})
    \cup (IF IsStr(p.timestamp) /\ time_value # NullObj THEN {"Updated time"} ELSE {})
    \cup (IF IsStr(p.event_type) THEN {"Tool status"} ELSE {})

\* processMQTTMessage: whether the tool status branch writes any object
WritesField(p) ==
    \/ IsStr(p.user_name) /\ user_value # NullObj
    \/ IsStr(p.timestamp) /\ time_value # NullObj
    \/ IsStr(p.event_type)
         /\ (time_label # NullObj \/ user_label # NullObj
               \/ status_indicator # NullObj)

\* mutant: the screen is redrawn right after the user value is written
ApplyStatus_RefreshBetweenWrites(p) ==
    /\ user_value' = UserValueAfter(p)
    /\ time_value' = TimeValueAfter(p)
    /\ time_label' = TimeLabelAfter(p)
    /\ user_label' = UserLabelAfter(p)
    /\ status_indicator' = StatusIndicatorAfter(p)
    /\ pending' = IF renderOn /\ WritesField(p)
                    THEN Min(pending + 1, MaxBurst) ELSE pending
    /\ drawn' = IF renderOn /\ IsStr(p.user_name) /\ user_value # NullObj
                  THEN <<status_indicator, user_label, UserValueAfter(p),
                         time_label, time_value>>
                  ELSE drawn

\* processMQTTMessage: the tool status branch
ApplyStatus(p) ==
    /\ user_value' = UserValueAfter(p)
    /\ time_value' = TimeValueAfter(p)
    /\ time_label' = TimeLabelAfter(p)
    /\ user_label' = UserLabelAfter(p)
    /\ status_indicator' = StatusIndicatorAfter(p)
    /\ IF WritesField(p) THEN Invalidate ELSE UNCHANGED <<pending, drawn>>

\* processMQTTMessage: the payload parsed and the topic is the status topic
DecodeSucceeded(topic, p) == p.wellformed /\ topic = StatusTopic

\* mutant: the parse error is printed but the function does not return
ProcessMQTTMessage_NoReturnOnError(topic, p, printed) ==
    /\ valid' = (valid \/ DecodeSucceeded(topic, p))
    /\ IF topic = StatusTopic
         THEN /\ ApplyStatus(p)
              /\ cbLog' = printed \cup StatusLog(p)
                          \cup (IF p.wellformed THEN {} ELSE {"JSON parsing failed"})
         ELSE /\ cbLog' = printed
                          \cup (IF p.wellformed THEN {} ELSE {"JSON parsing failed"})
                          \cup (IF topic = OverallTopic
                                  THEN {"Received overall status update"} ELSE {})
              /\ UNCHANGED <<snapshot, pending, drawn>>

\* processMQTTMessage(topic, payload); printed is what mqttCallback printed
ProcessMQTTMessage(topic, p, printed) ==
    /\ valid' = (valid \/ DecodeSucceeded(topic, p))
    /\ IF ~p.wellformed
         THEN /\ cbLog' = printed \cup {"JSON parsing failed"}
              /\ UNCHANGED <<snapshot, pending, drawn>>
         ELSE IF topic = StatusTopic
           THEN /\ ApplyStatus(p)
                /\ cbLog' = printed \cup StatusLog(p)
           ELSE IF topic = OverallTopic
             THEN /\ cbLog' = printed \cup {"Received overall status update"}
                  /\ UNCHANGED <<snapshot, pending, drawn>>
             ELSE /\ cbLog' = printed
                  /\ UNCHANGED <<snapshot, pending, drawn>>

\* mutant: the length check lets a message of exactly the buffer size through
MqttCallback_OffByOne(topic, p) ==
    IF p.length > MessageBufSize
      THEN /\ cbLog' = {"Message too large"}
           /\ UNCHANGED <<snapshot, valid, pending, drawn>>
      ELSE ProcessMQTTMessage(topic, p, {"Message arrived"})

\* mqttCallback(topic, payload, length)
MqttCallback(topic, p) ==
    IF p.length >= MessageBufSize
      THEN /\ cbLog' = {"Message too large"}
           /\ UNCHANGED <<snapshot, valid, pending, drawn>>
      ELSE ProcessMQTTMessage(topic, p, {"Message arrived"})

\* mqttClient.loop() with no packet waiting
ClientLoopIdle ==
    /\ pc = "client_loop"
    /\ mqttState' = StateAfterConnected
    /\ pc' = "status_check"
    /\ UNCHANGED <<attempts, wifi, linkUp, subscribed, subCalls, status_label,
                   snapshot, cbLog, valid, capVars, renderVars, timeVars>>

\* mqttClient.loop() receiving one PUBLISH and calling mqttCallback
ClientLoopDeliver(topic, p) ==
    /\ pc = "client_loop"
    /\ Connected
    /\ topic \in subscribed \cup {OtherTopic}
    /\ MqttCallback(topic, p)
    /\ pc' = "status_check"
    /\ UNCHANGED <<attempts, connVars, status_label, timeVars,
                   renderOn, lvTick, coalesced, capVars>>

\* loop(): the periodic status print, every 10 seconds
StatusCheck ==
    /\ pc = "status_check"
    /\ \E due \in BOOLEAN :
          mqttState' = IF due THEN StateAfterConnected ELSE mqttState
    /\ pc' = "delay"
    /\ UNCHANGED <<attempts, wifi, linkUp, subscribed, subCalls, status_label,
                   snapshot, cbLog, valid, capVars, renderVars, timeVars>>

\* loop(): delay(5)
LoopDelay ==
    /\ pc = "delay"
    /\ Elapse(LoopDelayMs)
    /\ pc' = "lv_timer"
    /\ UNCHANGED <<attempts, connVars, status_label, snapshot, cbLog, valid, capVars, renderVars>>

---------------------------------------------------------------------------
(* The environment *)

\* WiFi.status() becomes WL_CONNECTED, any time after WiFi.begin
WifiConnects ==
    /\ pc \notin {"cap_name", "create_ui", "wifi_begin"}
    /\ ~wifi
    /\ wifi' = TRUE
    /\ UNCHANGED <<pc, attempts, linkUp, mqttState, subscribed, subCalls,
                   status_label, snapshot, cbLog, valid, capVars, renderVars, timeVars>>

\* WiFi.status() stops being WL_CONNECTED
WifiDrops ==
    /\ wifi
    /\ wifi' = FALSE
    /\ UNCHANGED <<pc, attempts, linkUp, mqttState, subscribed, subCalls,
                   status_label, snapshot, cbLog, valid, capVars, renderVars, timeVars>>

\* the TCP connection to the broker is lost, and the session with it
LinkDrops ==
    /\ linkUp
    /\ linkUp' = FALSE
    /\ subscribed' = {}
    /\ UNCHANGED <<pc, attempts, wifi, mqttState, subCalls,
                   status_label, snapshot, cbLog, valid, capVars, renderVars, timeVars>>

---------------------------------------------------------------------------
(* Specifications *)

Setup == CapitalizeName \/ CreateSimpleUi \/ SetupWiFiBegin \/ SetupWiFiPoll \/ SetupWiFiDone \/ SetupMQTT

Connect ==
    \/ ConnectMQTT \/ ConnectOk \/ ConnectFail \/ SubscribeStatus
    \/ SubscribeOverall \/ ConnectedStatus \/ FailedStatus \/ Backoff

\* off the status topic the handler looks only at the size of the payload
\* and at whether it parses
OffTopicDocs ==
    MalformedDocs \cup LongDocs
      \cup {Doc("bob", "17:40", "disabled", Absent, Absent, TRUE, 40)}

Deliver ==
    \/ \E p \in Payloads : ClientLoopDeliver(StatusTopic, p)
    \/ \E topic \in {OverallTopic, OtherTopic}, p \in OffTopicDocs :
          ClientLoopDeliver(topic, p)

Loop == LvTimerHandler \/ CheckMqtt \/ ClientLoopIdle \/ StatusCheck \/ LoopDelay

Environment == WifiConnects \/ WifiDrops \/ LinkDrops

\* the steps of the sketch's one thread
Program == Setup \/ Loop \/ Connect \/ Deliver

Next == Program \/ Environment

Spec == Init /\ [][Next]_vars

\* the thread keeps running: setup() returns and loop() is called forever
FairSpec == Spec /\ WF_vars(Program)

\* the same sketch with elapsed time measured and no message arriving
InitTimed ==
    /\ pc = "cap_name"
    /\ attempts = 0
    /\ wifi = FALSE
    /\ linkUp = FALSE
    /\ mqttState = "DISCONNECTED"
    /\ subscribed = {}
    /\ subCalls = <<>>
    /\ status_label = NullObj
    /\ status_indicator = NullObj
    /\ user_label = NullObj
    /\ user_value = NullObj
    /\ time_label = NullObj
    /\ time_value = NullObj
    /\ cbLog = {}
    /\ clockOn = TRUE
    /\ gap = 0
    /\ blocked = 0
    /\ valid = FALSE
    /\ renderOn = FALSE
    /\ lvTick = 0
    /\ pending = 0
    /\ coalesced = 0
    /\ drawn = <<NullObj, NullObj, NullObj, NullObj, NullObj>>
    /\ toolName = Name(TARGET_TOOL_NAME)
    /\ toolDisplayName = <<>>

TimedNext == Setup \/ Loop \/ Connect \/ Environment

TimedSpec == InitTimed /\ [][TimedNext]_vars

\* status messages that write every snapshot field, and one that writes none
BurstDocs ==
    {Doc("alice", "09:15", "enabled", Absent, Absent, TRUE, 40),
     Doc("bob", "17:40", "disabled", Absent, Absent, TRUE, 40),
     Doc(Absent, Absent, Absent, Absent, "active", TRUE, 40)}

\* the same sketch with the display refresh followed, receiving status
\* messages only
InitRender ==
    /\ pc = "cap_name"
    /\ attempts = 0
    /\ wifi = FALSE
    /\ linkUp = FALSE
    /\ mqttState = "DISCONNECTED"
    /\ subscribed = {}
    /\ subCalls = <<>>
    /\ status_label = NullObj
    /\ status_indicator = NullObj
    /\ user_label = NullObj
    /\ user_value = NullObj
    /\ time_label = NullObj
    /\ time_value = NullObj
    /\ cbLog = {}
    /\ clockOn = FALSE
    /\ gap = 0
    /\ blocked = 0
    /\ valid = FALSE
    /\ renderOn = TRUE
    /\ lvTick = 0
    /\ pending = 0
    /\ coalesced = 0
    /\ drawn = <<NullObj, NullObj, NullObj, NullObj, NullObj>>
    /\ toolName = Name(TARGET_TOOL_NAME)
    /\ toolDisplayName = <<>>

DeliverBurst == \E p \in BurstDocs : ClientLoopDeliver(StatusTopic, p)

RenderNext == Setup \/ Loop \/ Connect \/ DeliverBurst \/ Environment

RenderSpec == InitRender /\ [][RenderNext]_vars

\* character codes around the tests of capitalizeToolName: 'a' 'z' 'A' '_'
\* '-' '1', and '`' '{' on either side of 'a'..'z'
NameChars == {97, 122, 65, 95, 45, 49, 96, 123}

\* the null pointer and every string of up to MaxNameLen of these characters
ToolNames ==
    {NullName} \cup {Name(chars) :
                       chars \in UNION {[1..k -> NameChars] : k \in 0..MaxNameLen}}

\* setup() up to the capitalizeToolName call, for any tool name
InitCap ==
    /\ pc = "cap_name"
    /\ attempts = 0
    /\ wifi = FALSE
    /\ linkUp = FALSE
    /\ mqttState = "DISCONNECTED"
    /\ subscribed = {}
    /\ subCalls = <<>>
    /\ status_label = NullObj
    /\ status_indicator = NullObj
    /\ user_label = NullObj
    /\ user_value = NullObj
    /\ time_label = NullObj
    /\ time_value = NullObj
    /\ cbLog = {}
    /\ clockOn = FALSE
    /\ gap = 0
    /\ blocked = 0
    /\ valid = FALSE
    /\ renderOn = FALSE
    /\ lvTick = 0
    /\ pending = 0
    /\ coalesced = 0
    /\ drawn = <<NullObj, NullObj, NullObj, NullObj, NullObj>>
    /\ toolName \in ToolNames
    /\ toolDisplayName = <<>>

CapNext == CapitalizeName

CapSpec == InitCap /\ [][CapNext]_vars

---------------------------------------------------------------------------
(* The connectivity phase of the specification, read off the sketch: a     *)
(* connect() call in progress is Connecting; otherwise the client's state  *)
(* tells whether the last attempt succeeded, failed, or the link was lost. *)

Phase ==
    IF pc = "connecting" THEN "Connecting"
    ELSE IF mqttState = "CONNECTED" THEN "Connected"
    ELSE IF mqttState = "CONNECT_FAILED" THEN "BackingOff"
    ELSE "Disconnected"

PhaseEdges ==
    {<<"Disconnected", "Connecting">>, <<"Connecting", "Connected">>,
     <<"Connecting", "BackingOff">>, <<"BackingOff", "Connecting">>,
     <<"Connected", "Disconnected">>}

---------------------------------------------------------------------------
(* Claims *)

\* C1: a status-topic message that lacks the key feeding a snapshot field
\* leaves that field as it was: user_name feeds the user value, timestamp the
\* time value, event_type the status block and the two captions.
C1_MergeNonDestructive ==
    [][(pc = "client_loop" /\ pc' = "status_check") =>
       \A p \in Payloads :
         ClientLoopDeliver(StatusTopic, p) =>
           /\ (p.user_name = Absent => user_value' = user_value)
           /\ (p.timestamp = Absent => time_value' = time_value)
           /\ (p.event_type = Absent =>
                 UNCHANGED <<status_indicator, user_label, time_label>>)]_vars

\* C1 witness: the last message was a status message carrying only
\* event_type, and the user and time set by earlier messages are still shown.
C1_Witness ==
    /\ cbLog = {"Message arrived", "Processing tool status message...", "Tool status"}
    /\ user_value = "alice"
    /\ time_value = "09:15"
    /\ status_indicator = "green"

\* C2: a message whose payload fails to parse changes no snapshot field,
\* on any topic and whatever was read before the parse error.
C2_MalformedIsolation ==
    [][(pc = "client_loop" /\ pc' = "status_check") =>
       \A topic \in Topics, p \in {q \in Payloads : ~q.wellformed} :
         ClientLoopDeliver(topic, p) => UNCHANGED snapshot]_vars

\* C2 witness: a parse failure was reported after valid messages had set the
\* snapshot, which still shows what they set.
C2_Witness ==
    /\ "JSON parsing failed" \in cbLog
    /\ user_value = "alice"
    /\ time_value = "09:15"
    /\ status_indicator = "green"
    /\ time_label = "Enabled Since"

\* C3: a message on a topic that is neither the status topic nor the overall
\* topic is dropped silently, never reported as a parse error, whatever its
\* payload, and changes no snapshot field.
C3_TopicMismatchSilent ==
    [][(pc = "client_loop" /\ pc' = "status_check") =>
       \A p \in Payloads :
         ClientLoopDeliver(OtherTopic, p) =>
           /\ UNCHANGED snapshot
           /\ "JSON parsing failed" \notin cbLog']_vars

\* C4: every entry into Connected issues exactly one subscribe for the status
\* topic and one for the overall topic, and no subscribe is issued otherwise:
\* the subscribes issued since the last connect() call are exactly these two
\* once that call has succeeded, and none while it has not.
C4_Resubscription ==
    subCalls =
      CASE pc = "connecting" -> <<>>
        [] pc = "sub_status" -> <<>>
        [] pc = "sub_overall" -> <<StatusTopic>>
        [] OTHER -> IF mqttState \in {"CONNECTED", "CONNECTION_LOST"}
                      THEN <<StatusTopic, OverallTopic>>
                      ELSE <<>>

\* C4 witness: a reconnect has subscribed again; the label still reads
\* Connected from the session before.
C4_Witness ==
    /\ pc = "ok_status"
    /\ subCalls = <<StatusTopic, OverallTopic>>
    /\ status_label = "Status: Connected"

\* C5 as claimed: whenever the broker link is not connected, a new connect()
\* call is eventually made.
C5_AlwaysRetries == [](~Connected => <>(pc = "connecting"))

\* C5 amended: whenever the broker link is not connected, the loop eventually
\* comes back to connectMQTT, where either WiFi is down and the attempt is
\* skipped, or a new connect() call is made; failed attempts never stop it.
C5_RetriesUnlessWifiDown ==
    [](~Connected => <>(pc = "connecting" \/ (pc = "connect_mqtt" /\ ~wifi)))

\* C5 witness: a new connect() call is in progress after a failed one.
C5_Witness == pc = "connecting" /\ mqttState = "CONNECT_FAILED"

\* C6: while a connection attempt or the wait after a failed one is in
\* progress, the render step can run.
C6_RenderNeverBlocked ==
    pc \in {"connecting", "backoff"} => ENABLED LvTimerHandler

\* C7: while the link is down the delay between two consecutive connect()
\* calls is at most MQTT_RECONNECT_INTERVAL, and no pass of loop() delays
\* for longer than that.
C7_BackoffBound ==
    /\ (pc = "connecting" /\ mqttState = "CONNECT_FAILED")
          => gap <= MQTT_RECONNECT_INTERVAL
    /\ blocked <= MQTT_RECONNECT_INTERVAL

\* C8: outside connectMQTT the client is never connected without an active
\* subscription to both topics: a failed subscribe leaves Connected.
C8_NeverConnectedUnsubscribed ==
    (pc \in {"lv_timer", "check_mqtt", "client_loop", "status_check", "delay"}
       /\ Connected)
      => subscribed = {StatusTopic, OverallTopic}

---------------------------------------------------------------------------
(* What the screen shows of the tool's lifecycle: the colour of the status *)
(* block and the two captions, all written by the event_type block.        *)

Lifecycle == <<status_indicator, time_label, user_label>>

\* the screen after an "enabled" message
ShownEnabled == <<"green", "Enabled Since", "User">>

\* the screen after a "disabled" message
ShownDisabled == <<"red", "Disabled Since", "Last User">>

\* the screen as create_simple_ui leaves it, before any message
ShownNoData == <<"red", "Enabled/Disabled Since", "User">>

\* C11: from the same snapshot, the message {"status":"active"} and the
\* message {"event_type":"enabled","in_use":false} give the same lifecycle.
C11_SchemaEquivalence ==
    [][(pc = "client_loop" /\ pc' = "status_check") =>
       \A p \in Payloads, q \in Payloads :
         (/\ p.status = "active"
          /\ q.event_type = "enabled" /\ q.in_use = "false"
          /\ ClientLoopDeliver(StatusTopic, p))
           => Lifecycle' = <<StatusIndicatorAfter(q), TimeLabelAfter(q),
                             UserLabelAfter(q)>>]_vars

\* C12: a status message whose status or event_type string is not a
\* recognised value is decoded without a parse error and the snapshot keeps
\* the raw string.
C12_UnknownValuePreserved ==
    [][(pc = "client_loop" /\ pc' = "status_check") =>
       \A p \in Payloads :
         (/\ p.wellformed /\ p.length < MessageBufSize
          /\ \/ p.status = "frobnicating"
             \/ p.event_type = "maintenance"
          /\ ClientLoopDeliver(StatusTopic, p))
           => /\ "JSON parsing failed" \notin cbLog'
              /\ \E f \in {status_indicator', user_label', user_value',
                           time_label', time_value'} :
                    f \in {p.status, p.event_type}]_vars

C14_OverallInert ==
    [][(pc = "client_loop" /\ pc' = "status_check") =>
       \A p \in Payloads :
         ClientLoopDeliver(OverallTopic, p) =>
           /\ UNCHANGED snapshot
           /\ "JSON parsing failed" \notin cbLog']_vars

\* the snapshot before create_simple_ui: no object exists
NothingShown == <<NullObj, NullObj, NullObj, NullObj, NullObj>>

\* the snapshot as create_simple_ui leaves it
Placeholders == <<"red", "User", "--", "Enabled/Disabled Since", "--:--">>

\* C15: valid is false at power-up and becomes true only when a status
\* message is decoded; while it is false every snapshot field holds its
\* placeholder; once true it stays true.
C15_Validity ==
    /\ ~valid
    /\ [](~valid => snapshot \in {NothingShown, Placeholders})
    /\ [][(~valid /\ valid') =>
            /\ "Processing tool status message..." \in cbLog'
            /\ "JSON parsing failed" \notin cbLog']_vars
    /\ [][valid => valid']_vars

\* C15 witness: a malformed message has been handled before any status
\* message was decoded, and the placeholders are still shown.
C15_Witness ==
    /\ ~valid
    /\ "JSON parsing failed" \in cbLog
    /\ snapshot = Placeholders

\* C16: no step of connectMQTT, of the rest of loop() outside the message
\* callback, or of the environment changes a snapshot field, and a pass of
\* mqttClient.loop() on a live link, delivering a message or not, changes
\* neither the connectivity state nor the status label.
C16_SingleWriter ==
    [][/\ (pc \notin {"create_ui", "client_loop"} => UNCHANGED snapshot)
       /\ (pc' = pc => UNCHANGED snapshot)
       /\ (pc = "client_loop" /\ pc' # pc /\ Connected)
            => UNCHANGED <<connVars, status_label>>]_vars

\* C16 witness: after a failed reconnect the screen still shows the tool
\* state set by the messages of the session before.
C16_Witness ==
    /\ pc = "backoff"
    /\ mqttState = "CONNECT_FAILED"
    /\ Lifecycle = ShownEnabled
    /\ user_value = "alice"
    /\ time_value = "09:15"

\* C17: the screen is redrawn only by the render step at the top of loop(),
\* in a step that writes no snapshot field, and what it draws is the whole
\* snapshot as the messages applied so far have left it.
C17_AtomicMerge ==
    [][drawn' # drawn =>
         /\ pc = "lv_timer"
         /\ snapshot' = snapshot
         /\ drawn' = snapshot]_vars

\* C17 witness: the render step has drawn the snapshot of a whole message.
C17_Witness ==
    /\ pc = "check_mqtt"
    /\ drawn = <<"red", "Last User", "bob", "Disabled Since", "17:40">>
    /\ pending = 0

SnapshotAfterStatus(p) ==
    IF p.length >= MessageBufSize \/ ~p.wellformed
      THEN snapshot
      ELSE <<StatusIndicatorAfter(p), UserLabelAfter(p), UserValueAfter(p),
             TimeLabelAfter(p), TimeValueAfter(p)>>

\* C19: processing a status message once more on the snapshot it has just
\* produced gives that snapshot again.
C19_IdempotentApply ==
    [][(pc = "client_loop" /\ pc' = "status_check") =>
       \A p \in Payloads :
         ClientLoopDeliver(StatusTopic, p) =>
           SnapshotAfterStatus(p)' = snapshot']_vars

\* C19 witness: a status message carrying all three keys has been applied.
C19_Witness ==
    /\ pc = "status_check"
    /\ cbLog = {"Message arrived", "Processing tool status message...",
                "Updated user", "Updated time", "Tool status"}
    /\ snapshot = <<"red", "Last User", "bob", "Disabled Since", "17:40">>

\* C20: setupWiFi polls the WiFi status at most 20 times and, connected or
\* not, returns, after which setup() goes on to setupMQTT.
C20_BoundedWifiSetup ==
    /\ [](attempts <= 20)
    /\ (pc = "wifi_poll") ~> (pc = "setup_mqtt")

\* C20 witness: the twentieth poll has been made and WiFi is still down.
C20_Witness ==
    /\ pc = "wifi_poll"
    /\ attempts = 20
    /\ ~wifi

\* C21: the status label does not go on showing "Status: Connected" while
\* the broker link is down: once the link is lost, either the label comes to
\* show something else or the link comes back.
C21_LabelFollowsLink ==
    [](~linkUp => <>(linkUp \/ status_label # "Status: Connected"))

\* C22: when connectMQTT is entered with WiFi not connected it returns to
\* loop() straight away: no connect() call, no subscribe, no delay, and the
\* client state, the status label and the snapshot are as they were.
C22_WifiGate ==
    [][(pc = "connect_mqtt" /\ ~wifi /\ pc' # pc) =>
         /\ pc' = "client_loop"
         /\ UNCHANGED <<connVars, status_label, snapshot, cbLog, timeVars>>]_vars

\* C22 witness: connectMQTT has returned at the gate: WiFi is down, the lost
\* link has been noticed, and no connect() call has been made since the
\* subscribes of the session before.
C22_Witness ==
    /\ pc = "client_loop"
    /\ ~wifi
    /\ mqttState = "CONNECTION_LOST"
    /\ subCalls = <<StatusTopic, OverallTopic>>
    /\ status_label = "Status: Connected"

\* C23: a delivered message as long as the message buffer or longer is
\* dropped before it is copied or parsed and changes no snapshot field, and a
\* message that is copied fits the buffer together with its terminator.
C23_OversizedIsolation ==
    [][(pc = "client_loop" /\ pc' = "status_check") =>
       \A topic \in Topics, p \in LongDocs :
         ClientLoopDeliver(topic, p) =>
           /\ p.length >= MessageBufSize =>
                UNCHANGED snapshot /\ cbLog' = {"Message too large"}
           /\ "Message arrived" \in cbLog' =>
                p.length + 1 <= MessageBufSize]_vars

\* C23 witness: a message too large for the buffer has been dropped, and the
\* snapshot set by earlier messages is still shown.
C23_Witness ==
    /\ cbLog = {"Message too large"}
    /\ Lifecycle = ShownEnabled
    /\ user_value = "alice"
    /\ time_value = "09:15"

\* C24: the status block is green exactly when the time caption reads
\* "Enabled Since", and the user caption reads "Last User" only over a red
\* block; a processed status message carrying event_type leaves the block
\* green exactly when its event_type is enabled or idle, and nothing but such
\* a message and create_simple_ui changes the colour of the block.
C24_IndicatorCaptionConsistency ==
    /\ [](status_indicator = "green" <=> time_label = "Enabled Since")
    /\ [](user_label = "Last User" => status_indicator = "red")
    /\ [][(pc = "client_loop" /\ pc' = "status_check") =>
          \A p \in Payloads :
            (/\ IsStr(p.event_type)
             /\ p.wellformed /\ p.length < MessageBufSize
             /\ ClientLoopDeliver(StatusTopic, p))
              => (status_indicator' = "green"
                    <=> p.event_type \in {"enabled", "idle"})]_vars
    /\ [][status_indicator' # status_indicator =>
            pc = "create_ui" \/ "Tool status" \in cbLog']_vars

\* C24 witness: a "disabled" message has put up the red block with the
\* captions "Disabled Since" and "Last User".
C24_Witness ==
    /\ "Tool status" \in cbLog
    /\ Lifecycle = ShownDisabled
    /\ user_value = "alice"

\* C25: for a null or empty name capitalizeToolName gives "Unknown Tool"; for
\* any other name the result is as long as the name, has a space for every
\* '_' and '-', the capital for a lowercase letter that starts the name or
\* directly follows a '_' or '-', and every other character as it was.
C25_CapitalizeToolName ==
    pc # "cap_name" =>
      IF toolName.isNull \/ toolName.chars = <<>>
        THEN toolDisplayName = UnknownTool
        ELSE /\ Len(toolDisplayName) = Len(toolName.chars)
             /\ \A i \in 1..Len(toolName.chars) :
                  LET c == toolName.chars[i]
                      r == toolDisplayName[i]
                  IN  IF c \in {95, 45} THEN r = 32
                      ELSE IF /\ c \in 97..122
                              /\ (i = 1 \/ toolName.chars[i - 1] \in {95, 45})
                        THEN r = c - 32
                        ELSE r = c

\* C25 witness: "a_a" has become "A A".
C25_Witness ==
    /\ pc = "create_ui"
    /\ ~toolName.isNull
    /\ toolName.chars = <<97, 95, 97>>
    /\ toolDisplayName = <<65, 32, 65>>

====
